---- MODULE Spec2Model ----
(***************************************************************************)
(* Model of flask_app_v0r2_render.py: the PostgreSQL marker store          *)
(* (save_markers_to_db / load_markers_from_db / load_all_users_markers),   *)
(* the users.json registry (load_users / save_users) and the Flask routes  *)
(* that bind them to a session.                                            *)
(*                                                                         *)
(* The table "markers" is the set of COMMITTED rows.  A psycopg2           *)
(* connection runs every statement inside one transaction (autocommit is   *)
(* off), so a statement of save_markers_to_db only adds to the caller's    *)
(* pending delete / insert sets; conn.commit() applies them and            *)
(* conn.rollback() drops them.  Isolation is PostgreSQL's default READ     *)
(* COMMITTED.                                                              *)
(***************************************************************************)
EXTENDS Integers, Sequences, FiniteSets, TLC

VARIABLES
    table,       \* committed rows of the table markers
    users_file,  \* content of users.json (<<>> also when the file is absent)
    session,     \* session['username'] of each client, NoUser when unset
    txn,         \* per worker: position and transaction of the running call
    call,        \* per worker: the operation last started and its arguments
    ret,         \* per worker: outcome of the last direct function call
    resp,        \* per worker: HTTP response of the last request
    uploads      \* the upload folder: host path separator, existence, files

vars == <<table, users_file, session, txn, call, ret, resp, uploads>>

----------------------------------------------------------------------------
(* Bounds *)

MaxLen == 2      \* longest posted marker list

----------------------------------------------------------------------------
(* Values *)

Procs == {1, 2}

UA == <<"a">>
UB == <<"b">>
Users == {UA, UB}
NoUser == <<>>

\* request.json['username'] as typed: a sequence of characters
RawNames == {<<"a">>, <<"b">>, <<" ", "a">>, <<"b", " ">>, <<" ">>, <<>>}

Files == {"f"}
SeedFile == "g"
AllFiles == Files \cup {SeedFile}

\* time_sec REAL: a 4-byte float, 24 bits of mantissa
REAL_MANTISSA == 16777216

BigTime == REAL_MANTISSA + 1

Range(s) == {s[k] : k \in DOMAIN s}

----------------------------------------------------------------------------
(* Marker entries of a request body (request.json is a list of them) *)

DictEntry(d) == [kind |-> "dict", d |-> d]
NumEntry(v) == [kind |-> "num", v |-> v]
StrEntry(s) == [kind |-> "str", s |-> s]

Entries ==
    { DictEntry([time |-> 1, label |-> "x"]),
      DictEntry([t |-> 1, label |-> "y"]),
      NumEntry(REAL_MANTISSA),
      NumEntry(BigTime),
      StrEntry("abc") }

RECURSIVE SeqsUpTo(_, _)
SeqsUpTo(E, n) ==
    IF n = 0 THEN {<<>>}
    ELSE LET shorter == SeqsUpTo(E, n - 1)
         IN  shorter \cup {Append(s, e) : s \in {x \in shorter : Len(x) = n - 1}, e \in E}

\* request bodies posted to the routes
Inputs == SeqsUpTo(Entries, MaxLen)

\* marker lists of the direct store calls: entries float() accepts (a failing
\* statement is the action Fail), with one bare number
StoreInputs ==
    SeqsUpTo({e \in Entries : e.kind # "str" /\ e # NumEntry(REAL_MANTISSA)}, MaxLen)

\* dict.get(key, default)
Get(d, key, default) == IF key \in DOMAIN d THEN d[key] ELSE default

\* float(marker) raises ValueError for a non-numeric string
FloatRaises(m) == m.kind = "str"

\* lines 94-99: the (time_sec, label) an entry is normalised to
EntryTime(m) ==
    IF m.kind = "dict" THEN Get(m.d, "time", Get(m.d, "t", 0)) ELSE m.v

EntryLabel(m) ==
    IF m.kind = "dict" THEN Get(m.d, "label", "") ELSE ""

\* storing a number in a REAL column: round to nearest, ties to even
RECURSIVE Ulp(_)
Ulp(t) == IF t < REAL_MANTISSA THEN 1 ELSE 2 * Ulp(t \div 2)

ToReal(t) ==
    LET u == Ulp(t)
        q == t \div u
        r == t % u
    IN  IF 2 * r < u THEN q * u
        ELSE IF 2 * r > u THEN (q + 1) * u
        ELSE IF q % 2 = 0 THEN q * u ELSE (q + 1) * u

Row(u, f, t, l) == [username |-> u, audio_path |-> f, time_sec |-> t, label |-> l]

\* the row an INSERT of entry m for (u, f) carries
EntryRow(u, f, m) == Row(u, f, ToReal(EntryTime(m)), EntryLabel(m))

\* UNIQUE(username, audio_path, time_sec)
SameKey(r, o) ==
    /\ r.username = o.username
    /\ r.audio_path = o.audio_path
    /\ r.time_sec = o.time_sec

\* faulty variant of DeleteWhere: the DELETE forgets the username
DeleteWhereAnyUser(tbl, u, f) == {r \in tbl : r.audio_path = f}

\* lines 87-90: DELETE ... WHERE username=%s AND audio_path=%s
DeleteWhere(tbl, u, f) == {r \in tbl : r.username = u /\ r.audio_path = f}

\* lines 125-129: SELECT ... WHERE username=%s AND audio_path=%s
SelectWhere(tbl, u, f) == {r \in tbl : r.username = u /\ r.audio_path = f}

\* faulty variant of FileRows: the SELECT forgets the audio_path
FileRowsAnyFile(tbl, f) == tbl

\* lines 151-155: SELECT ... WHERE audio_path=%s
FileRows(tbl, f) == {r \in tbl : r.audio_path = f}

----------------------------------------------------------------------------
(* Reading the table *)

\* ORDER BY time_sec over rows of one (username, audio_path)
RECURSIVE SortByTime(_)
SortByTime(S) ==
    IF S = {} THEN <<>>
    ELSE LET m == CHOOSE r \in S : \A o \in S : r.time_sec <= o.time_sec
         IN  <<m>> \o SortByTime(S \ {m})

\* text order of the usernames the model stores
Collation == <<UA, UB>>
NameRank(u) == CHOOSE k \in DOMAIN Collation : Collation[k] = u

\* ORDER BY username, time_sec
RowBefore(r, o) ==
    \/ NameRank(r.username) < NameRank(o.username)
    \/ r.username = o.username /\ r.time_sec <= o.time_sec

RECURSIVE SortByUserTime(_)
SortByUserTime(S) ==
    IF S = {} THEN <<>>
    ELSE LET m == CHOOSE r \in S : \A o \in S : RowBefore(r, o)
         IN  <<m>> \o SortByUserTime(S \ {m})

Marker(r) == [time |-> r.time_sec, label |-> r.label]

\* line 132: [{'time': row[0], 'label': row[1]} for row in rows]
MarkerList(rows) == [k \in DOMAIN rows |-> Marker(rows[k])]

\* lines 125-135: the list load_markers_from_db returns when the query runs
load_markers_from_db(tbl, u, f) == MarkerList(SortByTime(SelectWhere(tbl, u, f)))

EmptyMap == <<>>

\* lines 160-162: all_markers[username].append({'time':..., 'label':...})
RECURSIVE GroupByUser(_, _)
GroupByUser(rows, acc) ==
    IF rows = <<>> THEN acc
    ELSE LET r == Head(rows)
         IN  GroupByUser(Tail(rows),
                 IF r.username \in DOMAIN acc
                 THEN [acc EXCEPT ![r.username] = Append(@, Marker(r))]
                 ELSE acc @@ (r.username :> <<Marker(r)>>))

\* lines 151-164: the mapping load_all_users_markers returns when the query runs
load_all_users_markers(tbl, f) == GroupByUser(SortByUserTime(FileRows(tbl, f)), EmptyMap)

----------------------------------------------------------------------------
(* The users.json registry and the login name *)

\* str.strip() on the characters of the name
RECURSIVE lstrip(_)
lstrip(s) == IF s # <<>> /\ Head(s) = " " THEN lstrip(Tail(s)) ELSE s

RECURSIVE rstrip(_)
rstrip(s) ==
    IF s # <<>> /\ s[Len(s)] = " " THEN rstrip(SubSeq(s, 1, Len(s) - 1)) ELSE s

\* faulty variant of strip: only the leading whitespace is removed
stripLeft(s) == lstrip(s)

strip(s) == rstrip(lstrip(s))

\* lines 176-183: the list load_users returns; readable is FALSE when
\* open/json.load raises (the bare except returns [])
load_users(file, readable) == IF readable THEN file ELSE <<>>

\* variant of RegisterIfAbsent: an atomic insert-if-absent on the stored list
RegisterAtomically(file, users, username) ==
    IF username \in Range(file) THEN file ELSE Append(file, username)

\* lines 237-239: users.json after login, given the list users that login read
\* earlier: save_users writes the read list plus the name, and nothing is
\* written when the name was in the read list
RegisterIfAbsent(file, users, username) ==
    IF username \in Range(users) THEN file ELSE Append(users, username)

\* lines 295-297: users without markers get an empty list
Backfill(all_markers, users) ==
    [u \in DOMAIN all_markers \cup Range(users) |->
        IF u \in DOMAIN all_markers THEN all_markers[u] ELSE <<>>]

\* faulty variant of Forbidden: the identity check is missing
ForbiddenNever(current_user, username) == FALSE

\* line 314: current_user != username
Forbidden(current_user, username) == current_user # username

----------------------------------------------------------------------------
(* get_folder_structure *)

\* A file or folder name and a path are sequences of tokens: a token is one
\* character, or one of the extensions below taken as a whole.  "\\" is the
\* backslash, a legal character of a POSIX file name.
AllowedExts == {".mp3", ".wav", ".m4a", ".ogg"}

\* line 212: the label of the files directly under the upload folder
RootLabel == <<"ROOT_LABEL">>

\* os.sep of the host: POSIX or Windows
Seps == {"/", "\\"}

File(dirs, name) == [dirs |-> dirs, name |-> name]

\* files the upload folder may hold: dirs is the chain of folders from the
\* upload folder down to the file
Candidates ==
    { File(<<>>, <<"a", ".mp3">>),
      File(<<>>, <<"a", ".mp3", ".txt">>),
      File(<<>>, <<"d", "\\", "a", ".mp3">>),
      File(<< <<"d">> >>, <<"a", ".mp3">>),
      File(<< <<"d">> >>, <<"b", ".wav">>),
      File(<< <<"d">>, <<"e">> >>, <<"a", ".m4a">>),
      File(<< <<"e">> >>, <<"b", ".txt">>),
      File(<< RootLabel >>, <<"a", ".ogg">>) }

\* a Windows file name holds no backslash
NameAllowed(sep, name) == sep = "\\" => \A k \in DOMAIN name : name[k] # "\\"

Uploads(sep, exists, files) == [sep |-> sep, exists |-> exists, files |-> files]

\* the states of the upload folder: missing, or holding some of the candidates
UploadStates ==
    { Uploads(sep, FALSE, {}) : sep \in Seps }
    \cup UNION { { Uploads(sep, TRUE, fs) :
                      fs \in SUBSET {f \in Candidates : NameAllowed(sep, f.name)} } :
                    sep \in Seps }

SampleUploads ==
    Uploads("/", TRUE, { File(<<>>, <<"a", ".mp3">>),
                         File(<< <<"d">> >>, <<"b", ".wav">>) })

\* line 203: file.endswith(('.mp3', '.wav', '.m4a', '.ogg'))
endswith(name, exts) == name # <<>> /\ name[Len(name)] \in exts

\* lines 204-205: os.path.relpath(os.path.join(root, file), upload_folder)
RECURSIVE relpath(_, _, _)
relpath(dirs, name, sep) ==
    IF dirs = <<>> THEN name
    ELSE Head(dirs) \o <<sep>> \o relpath(Tail(dirs), name, sep)

\* line 206: rel_path.replace('\\', '/')
replace(path) == [k \in DOMAIN path |-> IF path[k] = "\\" THEN "/" ELSE path[k]]

\* lines 204-206: the listed path of a file
rel_path(f, sep) == replace(relpath(f.dirs, f.name, sep))

\* line 209: rel_path.rsplit('/', 1)[0]
rsplit(path) ==
    LET last == CHOOSE k \in DOMAIN path :
                    path[k] = "/" /\ \A j \in DOMAIN path : path[j] = "/" => j <= k
    IN  SubSeq(path, 1, last - 1)

\* lines 208-212: the group of a listed path
folder(path) ==
    IF \E k \in DOMAIN path : path[k] = "/" THEN rsplit(path) ELSE RootLabel

\* the tokens in the order of their first code points
TokenOrder ==
    <<".m4a", ".mp3", ".ogg", ".txt", ".wav", "/", "\\", "a", "b", "d", "e", "ROOT_LABEL">>

TokenRank(c) == CHOOSE k \in DOMAIN TokenOrder : TokenOrder[k] = c

\* str comparison: a <= b
RECURSIVE PathLeq(_, _)
PathLeq(a, b) ==
    IF a = <<>> THEN TRUE
    ELSE IF b = <<>> THEN FALSE
    ELSE IF Head(a) = Head(b) THEN PathLeq(Tail(a), Tail(b))
    ELSE TokenRank(Head(a)) < TokenRank(Head(b))

\* lines 214-215: the listed paths of the files fs, sorted
RECURSIVE SortPaths(_, _)
SortPaths(fs, sep) ==
    IF fs = {} THEN <<>>
    ELSE LET f == CHOOSE x \in fs :
                    \A o \in fs : PathLeq(rel_path(x, sep), rel_path(o, sep))
         IN  <<rel_path(f, sep)>> \o SortPaths(fs \ {f}, sep)

\* lines 193-218
get_folder_structure(up) ==
    IF ~up.exists THEN EmptyMap
    ELSE LET audio == {f \in up.files : endswith(f.name, AllowedExts)}
             group(k) == {f \in audio : folder(rel_path(f, up.sep)) = k}
         IN  [k \in {folder(rel_path(f, up.sep)) : f \in audio} |->
                 SortPaths(group(k), up.sep)]

----------------------------------------------------------------------------
(* Initial state *)

Seed ==
    { Row(UA, "f", 1, "y"),
      Row(UB, SeedFile, 1, "x"),
      Row(UB, SeedFile, REAL_MANTISSA, "") }

IdleTxn ==
    [pc |-> "idle", i |-> 0, del |-> {}, ins |-> {}, snap |-> {},
     clash |-> FALSE, conc |-> FALSE, lusers |-> <<>>, readable |-> TRUE,
     raw |-> <<>>]

NoCall == [op |-> "none", user |-> NoUser, file |-> "", markers |-> <<>>]
NoResp == [status |-> 0, body |-> <<>>]
NoRet == [status |-> "none", value |-> <<>>]

Init ==
    /\ table \in {{}, Seed}
    /\ users_file = <<>>
    /\ session = [p \in Procs |-> NoUser]
    /\ txn = [p \in Procs |-> IdleTxn]
    /\ call = [p \in Procs |-> NoCall]
    /\ ret = [p \in Procs |-> NoRet]
    /\ resp = [p \in Procs |-> NoResp]
    /\ uploads = SampleUploads

----------------------------------------------------------------------------
(* save_markers_to_db: one transaction, statement by statement *)

Active(q) == txn[q].pc \in {"delete", "delwait", "insert", "commit"}

\* line 107, conn.commit(): the pending deletes and inserts become the committed rows
CommitRows(tbl, d, i) == (tbl \ d) \cup i

\* faulty variant of RollbackRows: every statement was committed on its own
\* (autocommit), so the statements run before the failure stay applied
RollbackKeepsPartial(tbl, d, i) == (tbl \ d) \cup i

\* line 111, conn.rollback(): the pending deletes and inserts are dropped
RollbackRows(tbl, d, i) == tbl

\* Lines 82-83 succeeded: worker p opens its transaction on (u, f).  clash
\* records that another transaction on the same key ran while this one did,
\* conc that any other transaction did.
OpenTxn(p, u, f) ==
    txn' = [q \in Procs |->
              IF q = p
              THEN [IdleTxn EXCEPT
                      !.pc = "delete",
                      !.clash = \E o \in Procs \ {p} :
                                  Active(o) /\ call[o].user = u /\ call[o].file = f,
                      !.conc = \E o \in Procs \ {p} : Active(o)]
              ELSE IF Active(q)
              THEN [txn[q] EXCEPT
                      !.clash = @ \/ (call[q].user = u /\ call[q].file = f),
                      !.conc = TRUE]
              ELSE txn[q]]

\* The call of worker p ends: the function returns or raises, and for a call
\* made by POST /markers the route answers (lines 321, 325).  The record keeps
\* how many statements had run (i) and the overlap flags; the request body is
\* gone with the request, the arguments of a direct call stay with its caller.
EndCall(p, ok) ==
    /\ call' = [call EXCEPT ![p].markers = IF call[p].op = "post" THEN <<>> ELSE @]
    /\ txn' = [txn EXCEPT ![p] = [IdleTxn EXCEPT !.i = txn[p].i,
                                                 !.clash = txn[p].clash,
                                                 !.conc = txn[p].conc]]
    /\ IF call[p].op = "post"
       THEN /\ resp' = [resp EXCEPT ![p] = [status |-> IF ok THEN 200 ELSE 500,
                                            body |-> <<>>]]
            /\ ret' = ret
       ELSE /\ ret' = [ret EXCEPT ![p] = [status |-> IF ok THEN "ok" ELSE "raised",
                                          value |-> <<>>]]
            /\ resp' = resp

\* lines 110-113: except -> conn.rollback(); raise
Abort(p) ==
    /\ table' = RollbackRows(table, txn[p].del, txn[p].ins)
    /\ EndCall(p, FALSE)

\* lines 87-90: DELETE ... WHERE username=%s AND audio_path=%s.  The statement
\* sees the rows committed when it starts; a row another open transaction has
\* deleted is locked, and the statement waits for that transaction to end.
DeleteStmt(p) ==
    /\ txn[p].pc = "delete"
    /\ LET rows == DeleteWhere(table, call[p].user, call[p].file)
           locked == \E q \in Procs \ {p} : txn[q].del \cap rows # {}
           next == IF call[p].markers = <<>> THEN "commit" ELSE "insert"
       IN  txn' = [txn EXCEPT ![p] =
                     IF locked
                     THEN [@ EXCEPT !.pc = "delwait", !.snap = rows]
                     ELSE [@ EXCEPT !.pc = next, !.i = 1, !.del = rows]]
    /\ UNCHANGED <<uploads, table, users_file, session, call, ret, resp>>

\* The waiting DELETE resumes once no open transaction locks a row it saw; a
\* row whose deletion was committed meanwhile is skipped, and rows committed
\* after the statement started are not seen.
DeleteResume(p) ==
    /\ txn[p].pc = "delwait"
    /\ \A q \in Procs \ {p} : txn[q].del \cap txn[p].snap = {}
    /\ txn' = [txn EXCEPT ![p] =
                 [@ EXCEPT !.pc = IF call[p].markers = <<>> THEN "commit" ELSE "insert",
                           !.i = 1,
                           !.del = txn[p].snap \cap table,
                           !.snap = {}]]
    /\ UNCHANGED <<uploads, table, users_file, session, call, ret, resp>>

\* rows of tbl that an INSERT of row by worker p conflicts with
Conflicts(p, row, tbl) == {r \in tbl \ txn[p].del : SameKey(r, row)}

\* INSERT ... ON CONFLICT DO NOTHING waits for an open transaction that holds
\* an uncommitted row, or an uncommitted delete of a row, with the same key
InsertBlocked(p, row) ==
    /\ \A r \in txn[p].ins : ~SameKey(r, row)
    /\ \/ \E q \in Procs \ {p} : \E r \in txn[q].ins : SameKey(r, row)
       \/ \E q \in Procs \ {p} : txn[q].del \cap Conflicts(p, row, table) # {}

\* faulty variant of InsertOrNothing: a plain INSERT into a table without the
\* UNIQUE constraint
InsertAlways(p, row) == txn[p].ins \cup {row}

\* the pending inserts of worker p after INSERT ... ON CONFLICT DO NOTHING
InsertOrNothing(p, row) ==
    IF \/ \E r \in txn[p].ins : SameKey(r, row)
       \/ Conflicts(p, row, table) # {}
    THEN txn[p].ins
    ELSE txn[p].ins \cup {row}

\* lines 93-105: one iteration of the loop over markers
InsertStmt(p) ==
    /\ txn[p].pc = "insert"
    /\ LET m == call[p].markers[txn[p].i]
           row == EntryRow(call[p].user, call[p].file, m)
       IN  IF FloatRaises(m)
           THEN /\ Abort(p)
                /\ UNCHANGED <<uploads, users_file, session>>
           ELSE /\ ~InsertBlocked(p, row)
                /\ txn' = [txn EXCEPT ![p] =
                             [@ EXCEPT !.ins = InsertOrNothing(p, row),
                                       !.i = @ + 1,
                                       !.pc = IF txn[p].i = Len(call[p].markers)
                                              THEN "commit" ELSE "insert"]]
                /\ UNCHANGED <<uploads, table, users_file, session, call, ret, resp>>

\* line 107: conn.commit()
Commit(p) ==
    /\ txn[p].pc = "commit"
    /\ table' = CommitRows(table, txn[p].del, txn[p].ins)
    /\ EndCall(p, TRUE)
    /\ UNCHANGED <<uploads, users_file, session>>

\* A statement or the commit raises (connection lost, deadlock detected):
\* lines 110-113
Fail(p) ==
    /\ Active(p)
    /\ Abort(p)
    /\ UNCHANGED <<uploads, users_file, session>>

\* A direct call save_markers_to_db(u, f, m): get_db_connection (line 82)
\* raises, or the transaction opens
SaveCall(p, u, f, m) ==
    /\ txn[p].pc = "idle"
    /\ call' = [call EXCEPT ![p] = [op |-> "save", user |-> u, file |-> f, markers |-> m]]
    /\ resp' = [resp EXCEPT ![p] = NoResp]
    /\ \/ /\ ret' = [ret EXCEPT ![p] = [status |-> "raised", value |-> <<>>]]
          /\ txn' = [txn EXCEPT ![p] = IdleTxn]
       \/ /\ ret' = [ret EXCEPT ![p] = NoRet]
          /\ OpenTxn(p, u, f)
    /\ UNCHANGED <<uploads, table, users_file, session>>

TxnStep(p) ==
    \/ DeleteStmt(p)
    \/ DeleteResume(p)
    \/ InsertStmt(p)
    \/ Commit(p)
    \/ Fail(p)

----------------------------------------------------------------------------
(* Direct reads of the store *)

\* what the database does with a call: get_db_connection raises ("refused"),
\* the query raises ("query_error"), or the query runs ("up")
DbConditions == {"up", "refused", "query_error"}

Returned(v) == [status |-> "returned", value |-> v]
Raised == [status |-> "raised", value |-> <<>>]

\* lines 119-142: the outcome of load_markers_from_db(u, f)
LoadMarkersOutcome(tbl, u, f, db) ==
    IF db = "refused" THEN Raised
    ELSE IF db = "query_error" THEN Returned(<<>>)
    ELSE Returned(load_markers_from_db(tbl, u, f))

\* lines 145-171: the outcome of load_all_users_markers(f)
LoadAllOutcome(tbl, f, db) ==
    IF db = "refused" THEN Raised
    ELSE IF db = "query_error" THEN Returned(EmptyMap)
    ELSE Returned(load_all_users_markers(tbl, f))

LoadCall(p, u, f, db) ==
    /\ txn[p].pc = "idle"
    /\ call' = [call EXCEPT ![p] = [op |-> "load", user |-> u, file |-> f, markers |-> <<>>]]
    /\ ret' = [ret EXCEPT ![p] = LoadMarkersOutcome(table, u, f, db)]
    /\ resp' = [resp EXCEPT ![p] = NoResp]
    /\ UNCHANGED <<uploads, table, users_file, session, txn>>

LoadAllCall(p, f, db) ==
    /\ txn[p].pc = "idle"
    /\ call' = [call EXCEPT ![p] = [op |-> "load_all", user |-> NoUser, file |-> f,
                                    markers |-> <<>>]]
    /\ ret' = [ret EXCEPT ![p] = LoadAllOutcome(table, f, db)]
    /\ resp' = [resp EXCEPT ![p] = NoResp]
    /\ UNCHANGED <<uploads, table, users_file, session, txn>>

\* SpecStore: two workers make one direct call of the store each, a
\* save_markers_to_db or a read, and the calls overlap
StoreCall(p) ==
    /\ call[p].op = "none"
    /\ \/ \E u \in Users, f \in Files, m \in StoreInputs : SaveCall(p, u, f, m)
       \/ \E u \in Users, f \in AllFiles, db \in DbConditions : LoadCall(p, u, f, db)
       \/ \E f \in AllFiles, db \in DbConditions : LoadAllCall(p, f, db)

NextStore == \E p \in Procs : StoreCall(p) \/ TxnStep(p)

SpecStore == Init /\ [][NextStore]_vars

----------------------------------------------------------------------------
(* Routes *)

Answer(code, body) == [status |-> code, body |-> body]

\* lines 228-236: POST /login up to load_users()
LoginRead(p, raw, readable) ==
    /\ txn[p].pc = "idle"
    /\ LET username == strip(raw)
       IN  /\ call' = [call EXCEPT ![p] = [op |-> "login", user |-> username,
                                           file |-> "", markers |-> <<>>]]
           /\ IF username = <<>>
              THEN /\ resp' = [resp EXCEPT ![p] = Answer(400, <<>>)]
                   /\ txn' = [txn EXCEPT ![p] = [IdleTxn EXCEPT !.raw = raw]]
              ELSE /\ resp' = [resp EXCEPT ![p] = NoResp]
                   /\ txn' = [txn EXCEPT ![p] =
                                [IdleTxn EXCEPT !.pc = "login_write",
                                                !.lusers = load_users(users_file, readable),
                                                !.readable = readable,
                                                !.raw = raw]]
    /\ ret' = [ret EXCEPT ![p] = NoRet]
    /\ UNCHANGED <<uploads, table, users_file, session>>

\* lines 237-244: append and save_users when absent, set the session, answer
LoginWrite(p) ==
    /\ txn[p].pc = "login_write"
    /\ users_file' = RegisterIfAbsent(users_file, txn[p].lusers, call[p].user)
    /\ session' = [session EXCEPT ![p] = call[p].user]
    /\ resp' = [resp EXCEPT ![p] = Answer(200, <<>>)]
    /\ txn' = [txn EXCEPT ![p] = [IdleTxn EXCEPT !.lusers = txn[p].lusers,
                                                 !.readable = txn[p].readable,
                                                 !.raw = txn[p].raw]]
    /\ UNCHANGED <<uploads, table, call, ret>>

\* lines 247-252: GET /logout
Logout(p) ==
    /\ txn[p].pc = "idle"
    /\ session' = [session EXCEPT ![p] = NoUser]
    /\ call' = [call EXCEPT ![p] = [op |-> "logout", user |-> NoUser, file |-> "",
                                    markers |-> <<>>]]
    /\ resp' = [resp EXCEPT ![p] = Answer(302, <<>>)]
    /\ ret' = [ret EXCEPT ![p] = NoRet]
    /\ txn' = [txn EXCEPT ![p] = IdleTxn]
    /\ UNCHANGED <<uploads, table, users_file>>

\* lines 282-303: the answer of GET /markers/<filename>
GetMarkersAnswer(sess, tbl, file, f, db, readable) ==
    IF sess = NoUser THEN Answer(401, <<>>)
    ELSE LET all == LoadAllOutcome(tbl, f, db)
         IN  IF all.status = "raised" THEN Answer(500, <<>>)
             ELSE Answer(200, Backfill(all.value, load_users(file, readable)))

GetMarkers(p, f, db, readable) ==
    /\ txn[p].pc = "idle"
    /\ call' = [call EXCEPT ![p] = [op |-> "get_markers", user |-> NoUser, file |-> f,
                                    markers |-> <<>>]]
    /\ resp' = [resp EXCEPT ![p] = GetMarkersAnswer(session[p], table, users_file, f, db, readable)]
    /\ ret' = [ret EXCEPT ![p] = NoRet]
    /\ txn' = [txn EXCEPT ![p] = IdleTxn]
    /\ UNCHANGED <<uploads, table, users_file, session>>

\* lines 306-325: POST /markers/<filename>/<username>, up to the first
\* statement of save_markers_to_db.  The body m is read (line 317) only after
\* the two identity checks; get_db_connection (line 82) then raises, which
\* the route answers with 500 (lines 323-325), or the transaction opens.
PostMarkers(p, f, username) ==
    /\ txn[p].pc = "idle"
    /\ ret' = [ret EXCEPT ![p] = NoRet]
    /\ IF session[p] = NoUser \/ Forbidden(session[p], username)
       THEN /\ call' = [call EXCEPT ![p] = [op |-> "post", user |-> username, file |-> f,
                                            markers |-> <<>>]]
            /\ resp' = [resp EXCEPT ![p] =
                          Answer(IF session[p] = NoUser THEN 401 ELSE 403, <<>>)]
            /\ txn' = [txn EXCEPT ![p] = IdleTxn]
       ELSE \/ /\ call' = [call EXCEPT ![p] = [op |-> "post", user |-> username,
                                               file |-> f, markers |-> <<>>]]
               /\ resp' = [resp EXCEPT ![p] = Answer(500, <<>>)]
               /\ txn' = [txn EXCEPT ![p] = IdleTxn]
            \/ \E m \in Inputs :
                  /\ call' = [call EXCEPT ![p] = [op |-> "post", user |-> username,
                                                  file |-> f, markers |-> m]]
                  /\ resp' = [resp EXCEPT ![p] = NoResp]
                  /\ OpenTxn(p, username, f)
    /\ UNCHANGED <<uploads, table, users_file, session>>

\* faulty variant of NotInSession: the route is open to everybody
NotInSessionNever(sess) == FALSE

\* line 275: 'username' not in session
NotInSession(sess) == sess = NoUser

\* lines 272-279: GET /api/folders
ApiFolders(p) ==
    /\ txn[p].pc = "idle"
    /\ call' = [call EXCEPT ![p] = [op |-> "api_folders", user |-> NoUser, file |-> "",
                                    markers |-> <<>>]]
    /\ resp' = [resp EXCEPT ![p] =
                  IF NotInSession(session[p]) THEN Answer(401, <<>>)
                  ELSE Answer(200, get_folder_structure(uploads))]
    /\ ret' = [ret EXCEPT ![p] = NoRet]
    /\ txn' = [txn EXCEPT ![p] = IdleTxn]
    /\ UNCHANGED <<uploads, table, users_file, session>>

\* Spec: one worker serves the requests of one client, one after the other
Login(p) == \E raw \in RawNames, readable \in BOOLEAN : LoginRead(p, raw, readable)

Markers(p) ==
    \E f \in AllFiles, db \in DbConditions, readable \in BOOLEAN :
        GetMarkers(p, f, db, readable)

Post(p) == \E f \in Files, u \in Users : PostMarkers(p, f, u)

\* with one worker no DELETE ever waits for another transaction
Next ==
    \/ Login(1)
    \/ LoginWrite(1)
    \/ Logout(1)
    \/ Markers(1)
    \/ ApiFolders(1)
    \/ Post(1)
    \/ DeleteStmt(1)
    \/ InsertStmt(1)
    \/ Commit(1)
    \/ Fail(1)

Spec == Init /\ [][Next]_vars

\* SpecLogin: two clients log in and out, their requests overlapping
NextLogin ==
    \E p \in Procs : Login(p) \/ LoginWrite(p) \/ Logout(p)

SpecLogin == Init /\ [][NextLogin]_vars

\* SpecScan: the upload folder is in any of its states, and each worker
\* calls get_folder_structure() once
InitScan ==
    /\ table \in {{}, Seed}
    /\ users_file = <<>>
    /\ session = [p \in Procs |-> NoUser]
    /\ txn = [p \in Procs |-> IdleTxn]
    /\ call = [p \in Procs |-> NoCall]
    /\ ret = [p \in Procs |-> NoRet]
    /\ resp = [p \in Procs |-> NoResp]
    /\ uploads \in UploadStates

ScanCall(p) ==
    /\ call[p].op = "none"
    /\ call' = [call EXCEPT ![p] = [op |-> "scan", user |-> NoUser, file |-> "",
                                    markers |-> <<>>]]
    /\ ret' = [ret EXCEPT ![p] = Returned(get_folder_structure(uploads))]
    /\ UNCHANGED <<uploads, table, users_file, session, txn, resp>>

NextScan == \E p \in Procs : ScanCall(p)

SpecScan == InitScan /\ [][NextScan]_vars

----------------------------------------------------------------------------
(* Vocabulary of the properties *)

\* the MarkerSet stored for (u, f): its rows
MarkerSetOf(tbl, u, f) == {r \in tbl : r.username = u /\ r.audio_path = f}

Keys == Users \X AllFiles

\* the rows a call stores when it runs alone: one per stored timestamp, the
\* first entry winning
RECURSIVE StoredAlone(_, _, _, _)
StoredAlone(u, f, m, acc) ==
    IF m = <<>> THEN acc
    ELSE LET row == EntryRow(u, f, Head(m))
         IN  StoredAlone(u, f, Tail(m),
                 IF \E r \in acc : SameKey(r, row) THEN acc ELSE acc \cup {row})

Alone(u, f, m) == StoredAlone(u, f, m, {})

\* the normalized input of a call as the specification describes it: one
\* marker per distinct input timestamp with the label of its first entry
NormalizedSet(m) ==
    { [time |-> EntryTime(m[k]), label |-> EntryLabel(m[k])] :
        k \in {j \in DOMAIN m : \A h \in 1..(j - 1) : EntryTime(m[h]) # EntryTime(m[j])} }

RECURSIVE AscendingByTime(_)
AscendingByTime(S) ==
    IF S = {} THEN <<>>
    ELSE LET m == CHOOSE x \in S : \A o \in S : x.time <= o.time
         IN  <<m>> \o AscendingByTime(S \ {m})

NormalizedInput(m) == AscendingByTime(NormalizedSet(m))

IsAscending(list) == \A k \in 1..(Len(list) - 1) : list[k].time < list[k + 1].time

\* the step in which the save of worker p commits and returns
CommitStep(p) ==
    /\ txn[p].pc = "commit"
    /\ txn'[p].pc = "idle"
    /\ ret'[p].status = "ok" \/ resp'[p].status = 200

\* the step in which the save of worker p ends by raising
RaiseStep(p) ==
    /\ call'[p].op \in {"save", "post"}
    /\ txn'[p].pc = "idle"
    /\ ret'[p].status = "raised" \/ resp'[p].status = 500
    /\ ret'[p] # ret[p] \/ resp'[p] # resp[p] \/ txn'[p] # txn[p]

----------------------------------------------------------------------------
(* C1 *)

\* C1: a successful replace_markers(u, f, markers) followed immediately by
\* load_markers(u, f) returns exactly the normalized input: one marker per
\* distinct input timestamp, with the label of the first entry of that
\* timestamp, in ascending time order, and nothing of the set stored before.
C1_RoundTrip ==
    [][\A p \in Procs :
         CommitStep(p) =>
            load_markers_from_db(table', call[p].user, call[p].file)
               = NormalizedInput(call[p].markers)]_vars

----------------------------------------------------------------------------
(* C2 *)

\* the step in which worker p takes a POST /markers request whose session
\* identity is set and differs from the user of the URL
ForeignPostStep(p) ==
    /\ txn[p].pc = "idle"
    /\ call'[p].op = "post"
    /\ call'[p] # call[p] \/ resp'[p] # resp[p]
    /\ session[p] # NoUser
    /\ session[p] # call'[p].user

\* C2: a POST /markers/{file}/{user} whose session identity is set but is not
\* the user of the URL answers 403, starts no transaction and leaves every
\* stored row as it was.
C2_ForbiddenWrite ==
    [][\A p \in Procs :
         ForeignPostStep(p) =>
            /\ resp'[p].status = 403
            /\ txn'[p].pc = "idle"
            /\ table' = table]_vars

\* a foreign POST was answered while its target had markers stored
C2_Witness ==
    \E p \in Procs :
        /\ call[p].op = "post"
        /\ resp[p].status = 403
        /\ session[p] \notin {NoUser, call[p].user}
        /\ MarkerSetOf(table, call[p].user, call[p].file) # {}

----------------------------------------------------------------------------
(* C3 *)

\* C3: a replace_markers call that fails at any point (connection refused,
\* after the DELETE, after some INSERTs) raises and leaves every stored
\* MarkerSet as it was; the committed rows, which are what other requests
\* read, change only in the step in which a call commits and returns.
C3_FailureKeepsStore ==
    [][/\ \A p \in Procs :
            RaiseStep(p) =>
               \A k \in Keys : load_markers_from_db(table', k[1], k[2])
                                  = load_markers_from_db(table, k[1], k[2])
       /\ table' # table => \E p \in Procs : CommitStep(p)]_vars

\* a call failed after its DELETE and at least one INSERT had run, with
\* markers stored under its key
C3_Witness ==
    \E p \in Procs :
        /\ call[p].op = "save"
        /\ ret[p].status = "raised"
        /\ txn[p].i >= 2
        /\ MarkerSetOf(table, call[p].user, call[p].file) # {}

----------------------------------------------------------------------------
(* C4 *)

\* C4: load_markers and load_all_markers_for_file never raise: with nothing
\* written they return an empty result, and on every read failure, an
\* unreachable database included, they return an empty result as well.
C4_ReadsNeverRaise ==
    \A p \in Procs :
        call[p].op \in {"load", "load_all"} => ret[p].status = "returned"

----------------------------------------------------------------------------
(* C5 *)

\* C5: when a replace_markers call commits and no call on the same key ran
\* while it did, its key holds exactly what the call stores alone, whatever
\* other calls on other keys are doing, and the MarkerSet of every other key
\* is unchanged by the commit.
C5_DistinctKeysIndependent ==
    [][\A p \in Procs :
         (CommitStep(p) /\ ~txn[p].clash) =>
            /\ MarkerSetOf(table', call[p].user, call[p].file)
                  = Alone(call[p].user, call[p].file, call[p].markers)
            /\ \A k \in Keys :
                  k # <<call[p].user, call[p].file>> =>
                     MarkerSetOf(table', k[1], k[2]) = MarkerSetOf(table, k[1], k[2])]_vars

\* two calls on distinct keys overlapped, both committed non-empty sets, and
\* a third key holds markers
C5_Witness ==
    \E p, q \in Procs :
        /\ p # q
        /\ call[p].op = "save" /\ call[q].op = "save"
        /\ ret[p].status = "ok" /\ ret[q].status = "ok"
        /\ <<call[p].user, call[p].file>> # <<call[q].user, call[q].file>>
        /\ txn[p].conc /\ txn[q].conc
        /\ MarkerSetOf(table, call[p].user, call[p].file) # {}
        /\ MarkerSetOf(table, call[q].user, call[q].file) # {}
        /\ \E k \in Keys :
              /\ k \notin {<<call[p].user, call[p].file>>, <<call[q].user, call[q].file>>}
              /\ MarkerSetOf(table, k[1], k[2]) # {}

----------------------------------------------------------------------------
(* C6 *)

\* C6: when two replace_markers calls on the same key overlap and both
\* commit, the stored MarkerSet is the normalized input of one of the two
\* calls, never a union or mixture of both.
C6_WholeSetOverwrite ==
    \A p, q \in Procs :
        ( /\ p # q
          /\ call[p].op = "save" /\ call[q].op = "save"
          /\ ret[p].status = "ok" /\ ret[q].status = "ok"
          /\ call[p].user = call[q].user /\ call[p].file = call[q].file
          /\ txn[p].clash /\ txn[q].clash )
        => MarkerSetOf(table, call[p].user, call[p].file)
              \in { Alone(call[p].user, call[p].file, call[p].markers),
                    Alone(call[q].user, call[q].file, call[q].markers) }

----------------------------------------------------------------------------
(* C7 *)

\* C7: the registry loses updates.  When a login writes the list it read
\* (a successful read) plus its own new name, every other name that was
\* registered after that read is gone from users.json, although the login
\* that registered it was answered success.
C7_StaleWriteLosesUpdate ==
    [][\A p \in Procs :
         ( /\ txn[p].pc = "login_write"
           /\ txn'[p].pc = "idle"
           /\ txn[p].readable
           /\ call[p].user \notin Range(txn[p].lusers) )
         => /\ resp'[p].status = 200
            /\ \A n \in Range(users_file) \ Range(txn[p].lusers) :
                  n # call[p].user => n \notin Range(users_file')]_vars

\* two logins with different new names both read the list successfully,
\* both answered success, and users.json holds only one of the names
C7_Witness ==
    \E p, q \in Procs :
        /\ p # q
        /\ call[p].op = "login" /\ call[q].op = "login"
        /\ resp[p].status = 200 /\ resp[q].status = 200
        /\ txn[p].pc = "idle" /\ txn[q].pc = "idle"
        /\ txn[p].readable /\ txn[q].readable
        /\ call[p].user # call[q].user
        /\ call[p].user \notin Range(txn[p].lusers) \cup Range(txn[q].lusers)
        /\ call[q].user \notin Range(txn[p].lusers) \cup Range(txn[q].lusers)
        /\ call[p].user \notin Range(users_file)
        /\ call[q].user \in Range(users_file)

----------------------------------------------------------------------------
(* C8 *)

\* C8: over non-overlapping logins, reads of users.json that fail included,
\* the registry only grows by appending: every step leaves users.json
\* unchanged or appends one name that was absent, so no name is ever lost.
C8_RegistryAppendOnly ==
    [][\/ users_file' = users_file
       \/ \E n \in Users : /\ n \notin Range(users_file)
                           /\ users_file' = Append(users_file, n)]_vars

----------------------------------------------------------------------------
(* C9 *)

\* C9: the answer of an authenticated GET /markers/{f} has every user of the
\* registry as a key, mapped to the user's MarkerSet on f (empty when the
\* user has none), while load_all_markers_for_file(f) has no empty list.
C9_EveryUserListed ==
    \A p \in Procs :
        (call[p].op = "get_markers" /\ session[p] # NoUser) =>
            /\ resp[p].status = 200
            /\ \A u \in Range(users_file) :
                  /\ u \in DOMAIN resp[p].body
                  /\ resp[p].body[u] = load_markers_from_db(table, u, call[p].file)
            /\ \A u \in DOMAIN load_all_users_markers(table, call[p].file) :
                  load_all_users_markers(table, call[p].file)[u] # <<>>

----------------------------------------------------------------------------
(* C10 *)

\* C10: for every file f, load_all_markers_for_file(f) agrees with
\* load_markers: a user is a key of the mapping exactly when
\* load_markers(u, f) is non-empty, and the mapped list is then
\* load_markers(u, f), in ascending time order.
C10_LoadAllAgrees ==
    \A f \in AllFiles :
        LET all == load_all_users_markers(table, f)
        IN  /\ DOMAIN all \subseteq Users
            /\ \A u \in Users :
                  /\ u \in DOMAIN all <=> load_markers_from_db(table, u, f) # <<>>
                  /\ u \in DOMAIN all =>
                        /\ all[u] = load_markers_from_db(table, u, f)
                        /\ IsAscending(all[u])

\* after a save, one user has two markers on a file, another user none, and
\* a second file holds markers too
C10_Witness ==
    \E f \in Files, g \in AllFiles, u, v \in Users :
        /\ f # g
        /\ Len(load_markers_from_db(table, u, f)) >= 2
        /\ load_markers_from_db(table, v, f) = <<>>
        /\ FileRows(table, g) # {}

----------------------------------------------------------------------------
(* C11 *)

\* the entries of m are all bare numbers, with pairwise distinct values
DistinctBareNumbers(m) ==
    /\ m # <<>>
    /\ \A k \in DOMAIN m : m[k].kind = "num"
    /\ \A j, k \in DOMAIN m : j # k => m[j].v # m[k].v

\* C11: a replace_markers whose input holds only bare numbers with distinct
\* values stores, for every entry v, the marker {time: v, label: ""}: after
\* the commit the key holds exactly one empty-label row per input value, with
\* that value as its time.
C11_BareNumbers ==
    [][\A p \in Procs :
         (CommitStep(p) /\ DistinctBareNumbers(call[p].markers)) =>
            MarkerSetOf(table', call[p].user, call[p].file)
               = { Row(call[p].user, call[p].file, call[p].markers[k].v, "") :
                     k \in DOMAIN call[p].markers }]_vars

----------------------------------------------------------------------------
(* C12 *)

\* the loop of worker p stands at an entry that is neither a structured
\* record nor a plain number
AtMalformedEntry(p) ==
    /\ txn[p].pc = "insert"
    /\ call[p].markers[txn[p].i].kind \notin {"dict", "num"}

\* C12: an entry that is neither a structured record nor a plain number is
\* never escalated to an error: the step the save takes at such an entry
\* does not raise, and the save request is not answered with a failure.
C12_MalformedNotEscalated ==
    [][\A p \in Procs :
         (AtMalformedEntry(p) /\ txn'[p] # txn[p]) =>
            /\ txn'[p].pc \in {"insert", "commit"}
            /\ ret'[p].status # "raised"
            /\ resp'[p].status # 500]_vars

----------------------------------------------------------------------------
(* C13 *)

\* the name of f ends in an allowed audio extension
IsAudio(f) == f.name # <<>> /\ f.name[Len(f.name)] \in {".mp3", ".wav", ".m4a", ".ogg"}

\* the names of a chain of folders and a last name, joined with "/"
RECURSIVE JoinSlash(_, _)
JoinSlash(dirs, last) ==
    IF dirs = <<>> THEN last
    ELSE Head(dirs) \o <<"/">> \o JoinSlash(Tail(dirs), last)

\* the '/'-separated path of f relative to the upload folder
PathOf(f) == JoinSlash(f.dirs, f.name)

\* the group of f: the '/'-separated relative path of the folder that holds
\* it, the root label when that is the upload folder itself
GroupOf(f) ==
    IF f.dirs = <<>> THEN RootLabel
    ELSE JoinSlash(SubSeq(f.dirs, 1, Len(f.dirs) - 1), f.dirs[Len(f.dirs)])

\* how often path is listed in the group k of the mapping S
Listed(S, k, path) == Cardinality({i \in DOMAIN S[k] : S[k][i] = path})

\* C13: the folder scan lists every file of the upload folder whose name
\* ends in an allowed extension once, in the group of its containing folder
\* (the root label for a file directly under the upload folder) and in no
\* other group; a file with another extension is in no group; no group is
\* empty; every group is sorted ascending; a missing upload folder gives
\* the empty mapping.
C13_FolderScan ==
    \A p \in Procs :
        call[p].op = "scan" =>
            LET S == ret[p].value
            IN  /\ ret[p].status = "returned"
                /\ ~uploads.exists => DOMAIN S = {}
                /\ \A f \in uploads.files :
                      IF IsAudio(f)
                      THEN /\ GroupOf(f) \in DOMAIN S
                           /\ \A k \in DOMAIN S :
                                 Listed(S, k, PathOf(f)) = IF k = GroupOf(f) THEN 1 ELSE 0
                      ELSE \A k \in DOMAIN S : Listed(S, k, PathOf(f)) = 0
                /\ \A k \in DOMAIN S :
                      /\ S[k] # <<>>
                      /\ \A i \in 1..(Len(S[k]) - 1) : PathLeq(S[k][i], S[k][i + 1])

----------------------------------------------------------------------------
(* C14 *)

\* C14: in every committed state of the table, overlapping replace_markers
\* calls on one key included, no two stored markers share the same
\* (user, file, time) triple.
C14_UniqueTriple ==
    \A r1, r2 \in table :
        ( /\ r1.username = r2.username
          /\ r1.audio_path = r2.audio_path
          /\ r1.time_sec = r2.time_sec )
        => r1 = r2

\* two calls on one key overlapped and both committed, their inputs held
\* the same time with different labels, and a marker of that time is stored
C14_Witness ==
    \E p, q \in Procs :
        /\ p # q
        /\ call[p].op = "save" /\ call[q].op = "save"
        /\ ret[p].status = "ok" /\ ret[q].status = "ok"
        /\ call[p].user = call[q].user /\ call[p].file = call[q].file
        /\ txn[p].clash /\ txn[q].clash
        /\ \E j \in DOMAIN call[p].markers, k \in DOMAIN call[q].markers :
              /\ EntryTime(call[p].markers[j]) = EntryTime(call[q].markers[k])
              /\ EntryLabel(call[p].markers[j]) # EntryLabel(call[q].markers[k])
              /\ \E r \in MarkerSetOf(table, call[p].user, call[p].file) :
                    r.time_sec = EntryTime(call[p].markers[j])

----------------------------------------------------------------------------
(* C15 *)

\* the step in which worker p takes a request of one of the routes ops
RequestStep(p, ops) ==
    /\ txn[p].pc = "idle"
    /\ call'[p].op \in ops
    /\ call'[p] # call[p] \/ resp'[p] # resp[p]

\* C15: the session identity changes only when a login succeeds (to the
\* name of the login) and when a logout is served (to none).  With no
\* identity, GET /api/folders, GET /markers/{file} and POST
\* /markers/{file}/{user} answer 401, and the POST starts no transaction and
\* changes no stored row.  With the identity n, a POST targeting n is
\* answered neither 401 nor 403.
C15_SessionGuard ==
    [][\A p \in Procs :
         /\ session'[p] # session[p] =>
               \/ /\ call'[p].op = "login"
                  /\ resp'[p].status = 200
                  /\ session'[p] = call'[p].user
                  /\ session'[p] # NoUser
               \/ /\ call'[p].op = "logout"
                  /\ session'[p] = NoUser
         /\ (call'[p].op = "login" /\ resp'[p].status = 200 /\ resp[p].status # 200) =>
               session'[p] = call'[p].user
         /\ (RequestStep(p, {"logout"})) => session'[p] = NoUser
         /\ (RequestStep(p, {"api_folders", "get_markers", "post"}) /\ session[p] = NoUser) =>
               /\ resp'[p].status = 401
               /\ txn'[p].pc = "idle"
               /\ table' = table
         /\ ( /\ RequestStep(p, {"post"})
              /\ session[p] # NoUser
              /\ call'[p].user = session[p] ) =>
               resp'[p].status \notin {401, 403}]_vars

\* after a login and a logout, a POST was answered 401 while markers are
\* stored under the key it targeted
C15_Witness ==
    \E p \in Procs :
        /\ call[p].op = "post"
        /\ resp[p].status = 401
        /\ session[p] = NoUser
        /\ call[p].user \in Range(users_file)
        /\ MarkerSetOf(table, call[p].user, call[p].file) # {}

----------------------------------------------------------------------------
(* C16 *)

\* the name r as typed, without its surrounding whitespace
Trimmed(r) ==
    LET solid == {k \in DOMAIN r : r[k] # " "}
    IN  IF solid = {} THEN <<>>
        ELSE SubSeq(r, CHOOSE k \in solid : \A j \in solid : k <= j,
                       CHOOSE k \in solid : \A j \in solid : j <= k)

\* C16: a login whose name is empty or only whitespace is answered 400 and
\* leaves users.json and the session as they were; a login that succeeds
\* leaves the typed name without its surrounding whitespace in the session
\* and in users.json; users.json never holds an empty name.
C16_LoginName ==
    [][\A p \in Procs :
         /\ (RequestStep(p, {"login"}) /\ Trimmed(txn'[p].raw) = <<>>) =>
               /\ resp'[p].status = 400
               /\ txn'[p].pc = "idle"
               /\ users_file' = users_file
               /\ session' = session
         /\ (RequestStep(p, {"login"}) /\ Trimmed(txn'[p].raw) # <<>>) =>
               /\ resp'[p].status # 400
               /\ txn'[p].pc = "login_write"
         /\ (txn[p].pc = "login_write" /\ txn'[p].pc = "idle") =>
               /\ resp'[p].status = 200
               /\ session'[p] = Trimmed(txn[p].raw)
               /\ Trimmed(txn[p].raw) \in Range(users_file')
         /\ <<>> \notin Range(users_file')]_vars

\* a whitespace-only login was rejected while the client was logged in and
\* registered
C16_Witness ==
    \E p \in Procs :
        /\ call[p].op = "login"
        /\ resp[p].status = 400
        /\ txn[p].raw = <<" ">>
        /\ session[p] = UB
        /\ users_file = <<UB>>

====
